---- MODULE Spec2Model ----
(***************************************************************************)
(* RPC-over-queue worker of rpc_speed: the consume loop of RPCServer       *)
(* (rpc/rpc_server.py), the action MainApp.execute_rpc_action              *)
(* (app/__init__.py), the report dispatch execute_report                   *)
(* (speed/execute_rpc_action.py) and the upload policy of YaDiskAccessor   *)
(* (ya_disk/accessor.py).                                                  *)
(*                                                                         *)
(* One asyncio task runs RPCServer.start, with MainApp.execute_rpc_action  *)
(* as its action.  Every await of the code is a value of pc; the code      *)
(* between two awaits is one action.  The broker, the report service and   *)
(* the disk answer nondeterministically; the task can be cancelled at any  *)
(* await.                                                                  *)
(***************************************************************************)
EXTENDS Integers, Sequences, FiniteSets, TLC

VARIABLES
    pc,         \* the await the consumer task is suspended at
    conn,       \* RPCServer.connection: "none", "open", "closed"
    queue,      \* messages the broker holds for rpc_queue, in delivery order
    delivered,  \* number of messages delivered so far (the next delivery tag)
    cur,        \* the message inside `async with message.process(...)`, or NoMsg
    stats,      \* what has been done for cur so far
    pub,        \* the exchange.publish call in progress, or NoPub
    number,     \* local variable `number` of YaDiskAccessor.upload
    disk,       \* paths that exist on the disk
    done,       \* the last message that left message.process, with its stats
    nPub,       \* total number of exchange.publish calls
    cancelled,  \* the task running start has been cancelled
    trip        \* a Response on its way through to_bytes and back, or NoTrip

vars == <<pc, conn, queue, delivered, cur, stats, pub, number, disk, done, nPub, cancelled, trip>>

-----------------------------------------------------------------------------
(* Bounds of the model *)

\* messages the broker delivers in one run
MaxMsgs == 2

\* YaDiskSettings.ya_attempt_count (configuration, not in the repository)
AttemptCount == 3

\* characters in the message of a Response, and items and characters in its
\* result
MaxLen == 2

-----------------------------------------------------------------------------
(* Values *)

\* Python's None
None == "<None>"

NoMsg == [tag |-> 0]
NoPub == [routing_key |-> "<no publish>"]

ReplyTos == {None, "rq1"}
CorrIds == {"c1", "c2"}

\* typing.Literal REPORT_TYPE
REPORT_TYPE == {"date_range", "week", "last_week", "month", "last_month", "day"}

\* request bodies: bytes that are not JSON, a JSON object with a keyword the
\* action does not take, and JSON objects with the keyword report_type
Garbage == [json |-> FALSE]
Req(rt) == [json |-> TRUE, data |-> [report_type |-> rt]]
OtherKeys == [json |-> TRUE, data |-> [operation |-> "day"]]
Bodies == {Garbage, OtherKeys} \cup {Req(rt) : rt \in {"day", "week", "bogus"}}

\* exceptions: the class and the args tuple
Exc(type, args) == [type |-> type, args |-> args]

\* BaseException.__str__
Str(e) ==
    IF Len(e.args) = 0 THEN ""
    ELSE IF Len(e.args) = 1 THEN e.args[1]
    ELSE "('" \o e.args[1] \o "', '" \o e.args[2] \o "')"

\* the message of execute_report's final raise, and the default message of
\* Result and Response (the Russian literals, transliterated: the module is ASCII)
UnknownReportType == "Neizvestnyj tip otchyota"
Success == "Uspeshno"

\* failures of the report fetch (aiohttp): a timeout carries no args, and an
\* exception can be raised with an empty message
FetchErrors == {Exc("TimeoutError", <<>>),
                Exc("ClientError", <<"">>),
                Exc("ClientError", <<"Cannot connect to host">>),
                Exc("OSError", <<"104", "Connection reset by peer">>)}

\* a failure of a disk call other than "path exists"
DiskError == Exc("ResourceIsLockedError", <<"Resource is locked">>)

-----------------------------------------------------------------------------
(* Pure parts of the code *)

\* dataclass Response, to_dict and to_bytes: the JSON object put on the wire
Response(status, message, result) ==
    [status |-> status, message |-> message, result |-> result]

\* dataclass Result, to_dict and json.dumps: the JSON object the action returns
Result(status, course, result, message) ==
    [status |-> status, course |-> course, result |-> result, message |-> message]

Raise(e) == [raised |-> TRUE, exc |-> e]
Return(v) == [raised |-> FALSE, value |-> v]

\* json.loads(params.decode("utf-8"))
json_loads(body) ==
    IF body.json THEN Return(body.data)
    ELSE Raise(Exc("JSONDecodeError", <<"Expecting value: line 1 column 1 (char 0)">>))

\* binding **data to (report_type, start_date=None, end_date=None)
BindError(data) ==
    \/ "report_type" \notin DOMAIN data
    \/ ~(DOMAIN data \subseteq {"report_type", "start_date", "end_date"})

\* execute_report with a final else that runs a report instead of raising
execute_report_default(report_type) ==
    IF report_type = "date_range" THEN Return("get_report")
    ELSE IF report_type = "last_week" THEN Return("get_report_last_week")
    ELSE IF report_type = "month" THEN Return("get_report_month")
    ELSE IF report_type = "last_month" THEN Return("get_report_last_month")
    ELSE IF report_type = "day" THEN Return("get_report_current_day")
    ELSE Return("get_report_week")

\* execute_report: the method of the report service the if/elif chain awaits
execute_report(report_type) ==
    IF report_type = "date_range" THEN Return("get_report")
    ELSE IF report_type = "last_week" THEN Return("get_report_last_week")
    ELSE IF report_type = "month" THEN Return("get_report_month")
    ELSE IF report_type = "last_month" THEN Return("get_report_last_month")
    ELSE IF report_type = "day" THEN Return("get_report_current_day")
    ELSE Raise(Exc("Exception", <<UnknownReportType>>))

\* the except clause of MainApp.execute_rpc_action: str(ex.args[0]) raises
\* IndexError when the exception has no args
action_except(ex) ==
    IF Len(ex.args) = 0
    THEN Raise(Exc("IndexError", <<"tuple index out of range">>))
    ELSE Return(Result("ERROR", "course_type", <<>>, ex.args[1]))

\* action_return without result.result.append(link)
action_return_no_link(link) == Return(Result("OK", "", <<>>, Success))

\* the return after the try of MainApp.execute_rpc_action
action_return(link) == Return(Result("OK", "", <<link>>, Success))

\* ".".join(suf)
RECURSIVE Join(_)
Join(suf) ==
    IF Len(suf) = 1 THEN suf[1] ELSE suf[1] \o "." \o Join(Tail(suf))

\* make_file_path putting the number behind the suffix
make_file_path_after_suffix(upload_file_name, num) ==
    LET name == Head(upload_file_name)
        suf == Tail(upload_file_name)
        name1 == IF suf # <<>> THEN name \o "." \o Join(suf) ELSE name
        name2 == IF num # "" THEN name1 \o "(" \o num \o ")" ELSE name1
    IN "reports" \o "/" \o name2

\* YaDiskAccessor.make_file_path; upload_file_name is given split at its dots
\* and number as the string upload passes ("" for attempt 0)
BaseDir == "reports"
make_file_path(upload_file_name, num) ==
    LET name == Head(upload_file_name)
        suf == Tail(upload_file_name)
        name1 == IF num # "" THEN name \o "(" \o num \o ")" ELSE name
        name2 == IF suf # <<>> THEN name1 \o "." \o Join(suf) ELSE name1
    IN BaseDir \o "/" \o name2

\* file.name of the report, split at its dots
FileName == <<"r", "xlsx">>

\* the path upload tries in iteration `n` of its loop
upload_file(n) == make_file_path(FileName, IF n # 0 THEN ToString(n) ELSE "")

Link(path) == "https://disk/" \o path

\* _reply_to stamping the reply with the metadata of the newest queued message
reply_to_stale(message, response) ==
    LET other == IF queue # <<>> THEN queue[Len(queue)] ELSE message
    IN [body |-> response,
        correlation_id |-> other.correlation_id,
        routing_key |-> other.reply_to]

\* the Message RPCServer._reply_to hands to exchange.publish
reply_to(message, response) ==
    [body |-> response,
     correlation_id |-> message.correlation_id,
     routing_key |-> message.reply_to]

\* RPCServer.start, lines 43-51: the reply for the outcome of the try block
reply_for(message, outcome) ==
    IF outcome.raised
    THEN reply_to(message, Response("ERROR", Str(outcome.exc), <<>>))
    ELSE reply_to(message, outcome.value)

\* message.process(requeue=True)
process_exit_requeue(failed) ==
    IF failed THEN [kind |-> "reject", requeue |-> TRUE]
    ELSE [kind |-> "ack", requeue |-> FALSE]

\* ProcessContext.__aexit__ of message.process(requeue=False)
process_exit(failed) ==
    IF failed THEN [kind |-> "reject", requeue |-> FALSE]
    ELSE [kind |-> "ack", requeue |-> FALSE]

-----------------------------------------------------------------------------
(* State *)

Envelopes == [reply_to : ReplyTos, correlation_id : CorrIds, body : Bodies]

NoExc == Exc("<none>", <<>>)

\* pubs: _reply_to calls; started: self.action was called; error: the first
\* exception raised in the try block of start; method: the report method
\* execute_report awaits; action: how self.action ended; fetches, token_checks,
\* tried, stored: calls of the report service and of the disk client
NoStats == [pubs |-> 0, started |-> FALSE, error |-> NoExc, method |-> None,
            action |-> "none",
            fetches |-> 0, token_checks |-> 0, tried |-> <<>>, stored |-> <<>>]

\* decisions: the ack and reject calls made for msg; exit: how the block of
\* message.process ended; at: the await it ended at
NoDone == [tag |-> 0, reply_to |-> None, pubs |-> 0, started |-> FALSE,
           decisions |-> <<>>, exit |-> "none", at |-> "none"]

Paths == {upload_file(n) : n \in 0 .. AttemptCount - 1}

\* no Response is being encoded
NoTrip == [step |-> "idle"]

\* RPCServer before __init__ awaits _connect; the disk holds any of the names
Init ==
    /\ pc = "new"
    /\ conn = "none"
    /\ queue = <<>>
    /\ delivered = 0
    /\ cur = NoMsg
    /\ stats = NoStats
    /\ pub = NoPub
    /\ number = 0
    /\ disk \in SUBSET Paths
    /\ done = NoDone
    /\ nPub = 0
    /\ cancelled = FALSE
    /\ trip = NoTrip

\* the awaits of the action, of the reply and of the loop
ActionAwaits == {"fetching", "check_token", "uploading", "sleeping",
                 "publishing", "get_link"}
Awaits == ActionAwaits \cup {"waiting", "replying"}

-----------------------------------------------------------------------------
(* The broker *)

\* the broker puts a request on rpc_queue
Deliver ==
    /\ delivered < MaxMsgs
    /\ \E e \in Envelopes :
         queue' = Append(queue, [tag |-> delivered + 1,
                                 reply_to |-> e.reply_to,
                                 correlation_id |-> e.correlation_id,
                                 body |-> e.body])
    /\ delivered' = delivered + 1
    /\ UNCHANGED <<pc, conn, cur, stats, pub, number, disk, done, nPub, cancelled>>
    /\ UNCHANGED trip

-----------------------------------------------------------------------------
(* RPCServer *)

\* RPCServer.__init__ runs _connect to completion: connect() succeeds, or it
\* raises (as does run_until_complete when the loop is already running)
connect ==
    /\ pc = "new"
    /\ \/ pc' = "connected" /\ conn' = "open"
       \/ pc' = "failed" /\ conn' = "none"
    /\ UNCHANGED <<queue, delivered, cur, stats, pub, number, disk, done, nPub, cancelled>>
    /\ UNCHANGED trip

\* RPCServer.start up to the first await of `async for`
start ==
    /\ pc = "connected"
    /\ pc' = "waiting"
    /\ UNCHANGED <<conn, queue, delivered, cur, stats, pub, number, disk, done, nPub, cancelled>>
    /\ UNCHANGED trip

\* MainApp.start under run_app: after ya_disk.connect() it awaits
\* self.rpc_server.connect(), a method RPCServer does not have; run_app logs the
\* AttributeError (or the exception of ya_disk.connect) and its finally clause
\* awaits app.stop(), which fails the same way at self.rpc_server.disconnect():
\* RPCServer.start is never reached and nothing closes the connection
app_start ==
    /\ pc = "connected"
    /\ pc' = "failed"
    /\ UNCHANGED <<conn, queue, delivered, cur, stats, pub, number, disk, done, nPub, cancelled>>
    /\ UNCHANGED trip

\* call_reply without the `continue` of line 50: after the reply of the except
\* clause the reply of line 51 is sent as well
call_reply_no_continue(message, st, outcome) ==
    /\ pub' = reply_for(message, outcome)
    /\ stats' = [st EXCEPT !.pubs = @ + (IF outcome.raised THEN 2 ELSE 1)]
    /\ nPub' = nPub + (IF outcome.raised THEN 2 ELSE 1)
    /\ pc' = "replying"

\* the try block of start has an outcome: _reply_to is called (line 49 or 51)
\* and the task awaits exchange.publish
call_reply(message, st, outcome) ==
    /\ pub' = reply_for(message, outcome)
    /\ stats' = [st EXCEPT !.pubs = @ + 1]
    /\ nPub' = nPub + 1
    /\ pc' = "replying"

\* the first exception of the try block is noted
Failed(st, ex) == [st EXCEPT !.error = ex]

\* self.action ends with `outcome`: it returns a payload or raises
Acted(st, outcome) ==
    [st EXCEPT !.action = IF outcome.raised THEN "raised" ELSE "returned"]

\* `assert message.reply_to is not None` fails; self.action(**data) cannot bind
BadMessage == Exc("AssertionError", <<"Bad message">>)
BadCall == Exc("TypeError", <<"got an unexpected keyword argument">>)

\* an iterator that yields the newest message first
next_message_last(q) == q[Len(q)]

\* the message the iterator yields
next_message(q) == Head(q)

\* receive as it would be were a body that cannot be decoded dropped: the
\* message is acknowledged and no reply is made for it
receive_drop ==
    /\ pc = "waiting"
    /\ queue # <<>>
    /\ LET message == next_message(queue)
           data == json_loads(message.body)
       IN /\ queue' = SelectSeq(queue, LAMBDA m : m # message)
          /\ IF message.reply_to # None /\ data.raised
             THEN /\ done' = [tag |-> message.tag, reply_to |-> message.reply_to,
                              pubs |-> 0, started |-> FALSE,
                              decisions |-> <<process_exit(FALSE)>>,
                              exit |-> "returned", at |-> "waiting"]
                  /\ UNCHANGED <<pc, cur, stats, pub, nPub>>
             ELSE /\ cur' = message
                  /\ UNCHANGED done
                  /\ IF message.reply_to = None
                     THEN call_reply(message, Failed(NoStats, BadMessage),
                                     Raise(BadMessage))
                     ELSE IF BindError(data.value)
                     THEN call_reply(message, Failed(NoStats, BadCall), Raise(BadCall))
                     ELSE LET st == [NoStats EXCEPT !.started = TRUE]
                              method == execute_report(data.value.report_type)
                          IN IF method.raised
                             THEN call_reply(message,
                                             Acted(Failed(st, method.exc),
                                                   action_except(method.exc)),
                                             action_except(method.exc))
                             ELSE /\ pc' = "fetching"
                                  /\ stats' = [st EXCEPT !.method = method.value,
                                                         !.fetches = @ + 1]
                                  /\ UNCHANGED <<pub, nPub>>
    /\ UNCHANGED <<conn, delivered, number, disk, cancelled>>
    /\ UNCHANGED trip

\* `async for` yields a message; start enters message.process and runs to the
\* first await: the reply publish, or the report fetch of a dispatched request
receive ==
    /\ pc = "waiting"
    /\ queue # <<>>
    /\ LET message == next_message(queue)
           data == json_loads(message.body)
       IN /\ cur' = message
          /\ queue' = SelectSeq(queue, LAMBDA m : m # message)
          /\ IF message.reply_to = None
             THEN call_reply(message, Failed(NoStats, BadMessage), Raise(BadMessage))
             ELSE IF data.raised
             THEN call_reply(message, Failed(NoStats, data.exc), data)
             ELSE IF BindError(data.value)
             THEN call_reply(message, Failed(NoStats, BadCall), Raise(BadCall))
             ELSE LET st == [NoStats EXCEPT !.started = TRUE]
                      method == execute_report(data.value.report_type)
                  IN IF method.raised
                     THEN call_reply(message,
                                     Acted(Failed(st, method.exc),
                                           action_except(method.exc)),
                                     action_except(method.exc))
                     ELSE /\ pc' = "fetching"
                          /\ stats' = [st EXCEPT !.method = method.value,
                                                 !.fetches = @ + 1]
                          /\ UNCHANGED <<pub, nPub>>
    /\ UNCHANGED <<conn, delivered, number, disk, done, cancelled>>
    /\ UNCHANGED trip

\* message.process exits: the decision is sent and the message is finished
leave_process(exit) ==
    /\ done' = [tag |-> cur.tag, reply_to |-> cur.reply_to,
                pubs |-> stats.pubs, started |-> stats.started,
                decisions |-> <<process_exit(exit # "returned")>>,
                exit |-> exit, at |-> pc]
    /\ cur' = NoMsg
    /\ stats' = NoStats
    /\ pub' = NoPub
    /\ number' = 0

\* reply_done with a failed publish tried again
reply_done_retry ==
    /\ pc = "replying"
    /\ \/ /\ leave_process("returned")
          /\ pc' = "waiting"
          /\ UNCHANGED <<conn, nPub>>
       \/ /\ stats' = [stats EXCEPT !.pubs = @ + 1]
          /\ nPub' = nPub + 1
          /\ UNCHANGED <<pc, conn, cur, pub, number, done>>
    /\ UNCHANGED <<queue, delivered, disk, cancelled>>
    /\ UNCHANGED trip

\* exchange.publish returns: the block of message.process ends and the loop
\* awaits the next message; or it raises: the exception leaves message.process
\* and the loop, the finally clause closes the connection and start raises
reply_done ==
    /\ pc = "replying"
    /\ \/ /\ leave_process("returned")
          /\ pc' = "waiting"
          /\ UNCHANGED conn
       \/ /\ leave_process("raised")
          /\ pc' = "failed"
          /\ conn' = "closed"
    /\ UNCHANGED <<queue, delivered, disk, nPub, cancelled>>
    /\ UNCHANGED trip

-----------------------------------------------------------------------------
(* MainApp.execute_rpc_action and YaDiskAccessor *)

\* an exception reaches the except clause of execute_rpc_action
action_fails(ex) ==
    /\ call_reply(cur, Acted(Failed(stats, ex), action_except(ex)),
                  action_except(ex))
    /\ number' = 0

\* the report service answers: the file, or an exception of the fetch; with
\* the file the action enters upload, whose decorator awaits check_token
fetch_done ==
    /\ pc = "fetching"
    /\ \/ /\ pc' = "check_token"
          /\ stats' = [stats EXCEPT !.token_checks = @ + 1]
          /\ UNCHANGED <<pub, nPub, number>>
       \/ \E ex \in FetchErrors : action_fails(ex)
    /\ UNCHANGED <<conn, queue, delivered, cur, disk, done, cancelled>>
    /\ UNCHANGED trip

\* upload_loop with the test `number <= ya_attempt_count`
upload_loop_one_more(n) ==
    IF n <= AttemptCount
    THEN /\ pc' = "uploading"
         /\ number' = n
         /\ stats' = [stats EXCEPT !.tried = Append(@, upload_file(n))]
         /\ UNCHANGED <<pub, nPub>>
    ELSE action_fails(Exc("ValueError", <<"Please rename upload file">>))

\* the head of upload's while loop with number = n: the next client.upload
\* call, or ValueError behind the loop
upload_loop(n) ==
    IF n < AttemptCount
    THEN /\ pc' = "uploading"
         /\ number' = n
         /\ stats' = [stats EXCEPT !.tried = Append(@, upload_file(n))]
         /\ UNCHANGED <<pub, nPub>>
    ELSE action_fails(Exc("ValueError", <<"Please rename upload file">>))

\* check_token answers: upload runs (number = 0), or YaTokenNotValidException
check_token_done ==
    /\ pc = "check_token"
    /\ \/ upload_loop(0)
       \/ action_fails(Exc("YaTokenNotValidException",
               <<"The Yandex disk token failed verification, update token.">>))
    /\ UNCHANGED <<conn, queue, delivered, cur, disk, done, cancelled>>
    /\ UNCHANGED trip

\* upload_done without the sleep: after a collision the next attempt is made
\* at once
upload_done_no_sleep ==
    /\ pc = "uploading"
    /\ LET upload_file_path == upload_file(number)
       IN IF upload_file_path \in disk
          THEN /\ upload_loop(number + 1)
               /\ UNCHANGED disk
          ELSE \/ /\ disk' = disk \cup {upload_file_path}
                  /\ stats' = [stats EXCEPT !.stored = Append(@, upload_file_path)]
                  /\ pc' = "publishing"
                  /\ number' = 0
                  /\ UNCHANGED <<pub, nPub>>
               \/ /\ action_fails(DiskError)
                  /\ UNCHANGED disk
    /\ UNCHANGED <<conn, queue, delivered, cur, done, cancelled>>
    /\ UNCHANGED trip

\* upload_done with `except Exception` in place of `except PathExistsError`:
\* any failure of client.upload leads to the next attempt
upload_done_retry_any ==
    /\ pc = "uploading"
    /\ LET upload_file_path == upload_file(number)
       IN IF upload_file_path \in disk
          THEN /\ number' = number + 1
               /\ pc' = "sleeping"
               /\ UNCHANGED <<disk, stats, pub, nPub>>
          ELSE \/ /\ disk' = disk \cup {upload_file_path}
                  /\ stats' = [stats EXCEPT !.stored = Append(@, upload_file_path)]
                  /\ pc' = "publishing"
                  /\ number' = 0
                  /\ UNCHANGED <<pub, nPub>>
               \/ /\ number' = number + 1
                  /\ pc' = "sleeping"
                  /\ stats' = Failed(stats, DiskError)
                  /\ UNCHANGED <<disk, pub, nPub>>
    /\ UNCHANGED <<conn, queue, delivered, cur, done, cancelled>>
    /\ UNCHANGED trip

\* upload_done with client.upload(..., overwrite=True): a path that exists is
\* written over
upload_done_overwrite ==
    /\ pc = "uploading"
    /\ LET upload_file_path == upload_file(number)
       IN \/ /\ disk' = disk \cup {upload_file_path}
             /\ stats' = [stats EXCEPT !.stored = Append(@, upload_file_path)]
             /\ pc' = "publishing"
             /\ number' = 0
             /\ UNCHANGED <<pub, nPub>>
          \/ /\ action_fails(DiskError)
             /\ UNCHANGED disk
    /\ UNCHANGED <<conn, queue, delivered, cur, done, cancelled>>
    /\ UNCHANGED trip

\* client.upload answers: PathExistsError for a path that exists (number += 1,
\* then the sleep), otherwise the stored object or another failure
upload_done ==
    /\ pc = "uploading"
    /\ LET upload_file_path == upload_file(number)
       IN IF upload_file_path \in disk
          THEN /\ number' = number + 1
               /\ pc' = "sleeping"
               /\ UNCHANGED <<disk, stats, pub, nPub>>
          ELSE \/ /\ disk' = disk \cup {upload_file_path}
                  /\ stats' = [stats EXCEPT !.stored = Append(@, upload_file_path)]
                  /\ pc' = "publishing"
                  /\ number' = 0
                  /\ UNCHANGED <<pub, nPub>>
               \/ /\ action_fails(DiskError)
                  /\ UNCHANGED disk
    /\ UNCHANGED <<conn, queue, delivered, cur, done, cancelled>>
    /\ UNCHANGED trip

\* sleep_done with the token checked again before each later attempt
sleep_done_recheck ==
    /\ pc = "sleeping"
    /\ IF number < AttemptCount
       THEN /\ pc' = "uploading"
            /\ stats' = [stats EXCEPT !.token_checks = @ + 1,
                                      !.tried = Append(@, upload_file(number))]
            /\ UNCHANGED <<pub, nPub, number>>
       ELSE action_fails(Exc("ValueError", <<"Please rename upload file">>))
    /\ UNCHANGED <<conn, queue, delivered, cur, disk, done, cancelled>>
    /\ UNCHANGED trip

\* asyncio.sleep(1) returns: the loop condition is tested again
sleep_done ==
    /\ pc = "sleeping"
    /\ upload_loop(number)
    /\ UNCHANGED <<conn, queue, delivered, cur, disk, done, cancelled>>
    /\ UNCHANGED trip

\* ya_object.publish() answers
publish_done ==
    /\ pc = "publishing"
    /\ \/ /\ pc' = "get_link"
          /\ UNCHANGED <<stats, pub, nPub, number>>
       \/ action_fails(DiskError)
    /\ UNCHANGED <<conn, queue, delivered, cur, disk, done, cancelled>>
    /\ UNCHANGED trip

\* ya_object.get_download_link() answers: the action returns the OK result
get_link_done ==
    /\ pc = "get_link"
    /\ \/ /\ LET outcome == action_return(Link(stats.stored[Len(stats.stored)]))
             IN call_reply(cur, Acted(stats, outcome), outcome)
          /\ number' = 0
       \/ action_fails(DiskError)
    /\ UNCHANGED <<conn, queue, delivered, cur, disk, done, cancelled>>
    /\ UNCHANGED trip

-----------------------------------------------------------------------------
(* Cancellation and loss of the connection *)

\* cancel as it would be were CancelledError caught by `except Exception`:
\* the action turns it into an ERROR result and the loop goes on
cancel_caught ==
    /\ pc \in Awaits
    /\ cancelled' = TRUE
    /\ IF pc \in ActionAwaits
       THEN /\ action_fails(Exc("CancelledError", <<"cancelled">>))
            /\ UNCHANGED <<done, cur, conn>>
       ELSE /\ IF cur # NoMsg
               THEN leave_process("cancelled")
               ELSE UNCHANGED <<done, cur, stats, pub, number>>
            /\ pc' = "stopped"
            /\ conn' = "closed"
            /\ UNCHANGED nPub
    /\ UNCHANGED <<queue, delivered, disk>>
    /\ UNCHANGED trip

\* the task is cancelled: CancelledError is raised at the await it is suspended
\* at, passes `except Exception`, leaves message.process, is swallowed by
\* `except asyncio.CancelledError` and the finally clause closes the connection
cancel ==
    /\ pc \in Awaits
    /\ cancelled' = TRUE
    /\ IF cur # NoMsg
       THEN leave_process("cancelled")
       ELSE UNCHANGED <<done, cur, stats, pub, number>>
    /\ pc' = "stopped"
    /\ conn' = "closed"
    /\ UNCHANGED <<queue, delivered, disk, nPub>>
    /\ UNCHANGED trip

\* iterator_error without the finally clause: start raises and the connection
\* stays open
iterator_error_no_close ==
    /\ pc = "waiting"
    /\ pc' = "failed"
    /\ UNCHANGED <<conn, queue, delivered, cur, stats, pub, number, disk, done, nPub, cancelled>>
    /\ UNCHANGED trip

\* the queue iterator raises while the loop awaits the next message (the
\* connection is lost): the finally clause runs and start raises
iterator_error ==
    /\ pc = "waiting"
    /\ pc' = "failed"
    /\ conn' = "closed"
    /\ UNCHANGED <<queue, delivered, cur, stats, pub, number, disk, done, nPub, cancelled>>
    /\ UNCHANGED trip

-----------------------------------------------------------------------------

Next ==
    \/ Deliver
    \/ connect
    \/ start
    \/ app_start
    \/ receive
    \/ fetch_done
    \/ check_token_done
    \/ upload_done
    \/ sleep_done
    \/ publish_done
    \/ get_link_done
    \/ reply_done
    \/ cancel
    \/ iterator_error

Spec == Init /\ [][Next]_vars

-----------------------------------------------------------------------------
(* Response on the wire *)

\* a str is the sequence of its characters; U+044F stands for a character
\* that is not ASCII
Chars == {"u", "\"", "\\", "U+044F"}
StrsUpTo(n) == UNION {[1 .. k -> Chars] : k \in 0 .. n}
Strs == StrsUpTo(MaxLen)

\* the lists of k strs with at most n characters in all
RECURSIVE Lists(_, _)
Lists(k, n) ==
    IF k = 0 THEN {<<>>}
    ELSE UNION {{<<str>> \o l : l \in Lists(k - 1, n - Len(str))} : str \in StrsUpTo(n)}

\* the values of the fields of a Response
Statuses == {<<"O", "K">>, <<"E", "R", "R", "O", "R">>}
Results == UNION {Lists(k, MaxLen) : k \in 0 .. MaxLen}

StatusKey == <<"s", "t", "a", "t", "u", "s">>
MessageKey == <<"m", "e", "s", "s", "a", "g", "e">>
ResultKey == <<"r", "e", "s", "u", "l", "t">>

\* Response.to_dict: asdict keeps the order of the fields
to_dict(r) ==
    << [key |-> StatusKey, kind |-> "str", value |-> r.status],
       [key |-> MessageKey, kind |-> "str", value |-> r.message],
       [key |-> ResultKey, kind |-> "list", value |-> r.result] >>

\* json.dumps writing every character as it is
escape_none(c) == <<c>>

\* json.dumps of one character of a str (ensure_ascii is on)
escape(c) ==
    IF c = "\"" THEN <<"\\", "\"">>
    ELSE IF c = "\\" THEN <<"\\", "\\">>
    ELSE IF c = "U+044F" THEN <<"\\", "u", "0", "4", "4", "f">>
    ELSE <<c>>

RECURSIVE dumps_chars(_)
dumps_chars(str) ==
    IF str = <<>> THEN <<>> ELSE escape(Head(str)) \o dumps_chars(Tail(str))

\* json.dumps of a str
dumps_str(str) == <<"\"">> \o dumps_chars(str) \o <<"\"">>

RECURSIVE dumps_items(_)
dumps_items(l) ==
    IF Len(l) = 1 THEN dumps_str(l[1])
    ELSE dumps_str(Head(l)) \o <<",", " ">> \o dumps_items(Tail(l))

\* json.dumps of a list of str
dumps_list(l) ==
    IF l = <<>> THEN <<"[", "]">> ELSE <<"[">> \o dumps_items(l) \o <<"]">>

dumps_value(item) ==
    IF item.kind = "list" THEN dumps_list(item.value) ELSE dumps_str(item.value)

RECURSIVE dumps_members(_)
dumps_members(d) ==
    LET member == dumps_str(Head(d).key) \o <<":", " ">> \o dumps_value(Head(d))
    IN IF Len(d) = 1 THEN member
       ELSE member \o <<",", " ">> \o dumps_members(Tail(d))

\* json.dumps of a dict
json_dumps(d) == <<"{">> \o dumps_members(d) \o <<"}">>

\* Response.to_bytes: the text json.dumps writes is ASCII, so that its UTF-8
\* encoding has one byte for each character
to_bytes(r) == json_dumps(to_dict(r))

\* The decoder of the wire form: json.loads of the payload, then Response(**d)

At(w, i) == IF i \in 1 .. Len(w) THEN w[i] ELSE "<end>"
NoParse(i) == [ok |-> FALSE, next |-> i]
Parsed(v, i) == [ok |-> TRUE, val |-> v, next |-> i]

\* the characters of a JSON string from position i up to its closing quote
RECURSIVE parse_chars(_, _, _)
parse_chars(w, i, acc) ==
    LET c == At(w, i)
        e == At(w, i + 1)
    IN IF c = "<end>" THEN NoParse(i)
       ELSE IF c = "\"" THEN Parsed(acc, i + 1)
       ELSE IF c # "\\" THEN parse_chars(w, i + 1, Append(acc, c))
       ELSE IF e \in {"\"", "\\"} THEN parse_chars(w, i + 2, Append(acc, e))
       ELSE IF /\ e = "u"
               /\ <<At(w, i + 2), At(w, i + 3), At(w, i + 4), At(w, i + 5)>>
                    = <<"0", "4", "4", "f">>
            THEN parse_chars(w, i + 6, Append(acc, "U+044F"))
       ELSE NoParse(i)

parse_str(w, i) == IF At(w, i) = "\"" THEN parse_chars(w, i + 1, <<>>) ELSE NoParse(i)

\* the items of a JSON array of strings from position i up to its bracket
RECURSIVE parse_items(_, _, _)
parse_items(w, i, acc) ==
    LET item == parse_str(w, i)
    IN IF ~item.ok THEN NoParse(i)
       ELSE IF At(w, item.next) = "]"
       THEN Parsed(Append(acc, item.val), item.next + 1)
       ELSE IF At(w, item.next) = "," /\ At(w, item.next + 1) = " "
       THEN parse_items(w, item.next + 2, Append(acc, item.val))
       ELSE NoParse(item.next)

parse_list(w, i) ==
    IF At(w, i + 1) = "]" THEN Parsed(<<>>, i + 2) ELSE parse_items(w, i + 1, <<>>)

parse_value(w, i) ==
    IF At(w, i) = "[" THEN parse_list(w, i) ELSE parse_str(w, i)

\* the members of a JSON object from position i up to its brace
RECURSIVE parse_members(_, _, _)
parse_members(w, i, acc) ==
    LET key == parse_str(w, i)
        value == parse_value(w, key.next + 2)
    IN IF ~key.ok \/ At(w, key.next) # ":" \/ At(w, key.next + 1) # " "
       THEN NoParse(i)
       ELSE IF ~value.ok THEN NoParse(key.next)
       ELSE LET d == Append(acc, [key |-> key.val, value |-> value.val])
            IN IF At(w, value.next) = "}" THEN Parsed(d, value.next + 1)
               ELSE IF At(w, value.next) = "," /\ At(w, value.next + 1) = " "
               THEN parse_members(w, value.next + 2, d)
               ELSE NoParse(value.next)

\* json.loads of a payload that is a JSON object
loads(w) ==
    LET d == IF At(w, 1) = "{" THEN parse_members(w, 2, <<>>) ELSE NoParse(1)
    IN IF d.ok /\ d.next = Len(w) + 1 THEN Return(d.val)
       ELSE Raise(Exc("JSONDecodeError", <<"Expecting value">>))

\* Response(**d) for the decoded object d
from_dict(d) ==
    LET Keys == {d[j].key : j \in 1 .. Len(d)}
        Get(k) == d[CHOOSE j \in 1 .. Len(d) : d[j].key = k].value
    IN IF Keys \subseteq {StatusKey, MessageKey, ResultKey} /\ Len(d) = 3
       THEN Return(Response(Get(StatusKey), Get(MessageKey), Get(ResultKey)))
       ELSE Raise(BadCall)

from_bytes(w) ==
    LET d == loads(w)
    IN IF d.raised THEN d ELSE from_dict(d.value)

\* a Response is built, with any field values
InitTrip ==
    /\ pc = "new"
    /\ conn = "none"
    /\ queue = <<>>
    /\ delivered = 0
    /\ cur = NoMsg
    /\ stats = NoStats
    /\ pub = NoPub
    /\ number = 0
    /\ disk = {}
    /\ done = NoDone
    /\ nPub = 0
    /\ cancelled = FALSE
    /\ trip \in {[step |-> "built", response |-> Response(st, m, r)] :
                     st \in Statuses, m \in Strs, r \in Results}

\* the Response is encoded
encode ==
    /\ trip.step = "built"
    /\ trip' = [step |-> "encoded", response |-> trip.response,
                wire |-> to_bytes(trip.response)]
    /\ UNCHANGED <<pc, conn, queue, delivered, cur, stats, pub, number, disk, done, nPub, cancelled>>

\* the payload is decoded
decode ==
    /\ trip.step = "encoded"
    /\ trip' = [step |-> "decoded", response |-> trip.response,
                wire |-> trip.wire, decoded |-> from_bytes(trip.wire)]
    /\ UNCHANGED <<pc, conn, queue, delivered, cur, stats, pub, number, disk, done, nPub, cancelled>>

NextTrip ==
    \/ encode
    \/ decode

SpecTrip == InitTrip /\ [][NextTrip]_vars

-----------------------------------------------------------------------------
(* Properties *)

Finished == done.tag # 0
NoRequeue(d) == d.kind \in {"ack", "reject"} /\ d.requeue = FALSE

\* the request of message m binds to the action, with a report type that is
\* not (is) one of the declared ones
UnknownOp(m) ==
    /\ m # NoMsg
    /\ m.body.json
    /\ ~BindError(m.body.data)
    /\ m.body.data.report_type \notin REPORT_TYPE

DeclaredOp(m) ==
    /\ m # NoMsg
    /\ m.body.json
    /\ ~BindError(m.body.data)
    /\ m.body.data.report_type \in REPORT_TYPE

C2_OneDecisionNoRequeue ==
    /\ Finished => Len(done.decisions) = 1 /\ NoRequeue(done.decisions[1])
    /\ done.tag = delivered - Len(queue) - (IF cur # NoMsg THEN 1 ELSE 0)
    /\ pc \in {"waiting", "stopped", "failed"} => cur = NoMsg

C2_Witness ==
    /\ Finished /\ done.exit = "raised"
    /\ done.decisions = <<[kind |-> "reject", requeue |-> FALSE]>>
    /\ pc = "failed"

\* C3: every reply handed to exchange.publish is routed to the reply_to of the
\* message in process and carries that message's correlation_id, never those
\* of another message.
C3_ReplyCorrelated ==
    pub # NoPub =>
        /\ cur # NoMsg
        /\ pub.routing_key = cur.reply_to
        /\ pub.correlation_id = cur.correlation_id

C3_Witness ==
    /\ pub # NoPub /\ cur # NoMsg /\ cur.tag = 2
    /\ pub.routing_key = "rq1" /\ queue = <<>>

\* C4: for a message without reply_to no publish call is made, the action is
\* not executed, the message gets a no-requeue decision and the loop goes on.
C4_NoReplyToNoPublish ==
    /\ (cur # NoMsg /\ cur.reply_to = None) =>
          pub = NoPub /\ stats.pubs = 0 /\ ~stats.started
    /\ (Finished /\ done.reply_to = None) =>
          /\ done.pubs = 0 /\ ~done.started
          /\ NoRequeue(done.decisions[1])
          /\ done.exit \in {"returned", "cancelled"}

\* C5: for a message with a reply_to, an exception of the decoding or of the
\* action becomes a reply with status ERROR whose message is the description
\* (str) of that exception, and once that reply is published the loop awaits
\* the next message.
C5_ErrorReplyCarriesFailure ==
    [][/\ (pc' = "replying" /\ cur'.reply_to # None /\ stats'.error # NoExc) =>
            /\ pub'.body.status = "ERROR"
            /\ pub'.body.message = Str(stats'.error)
       /\ (pc = "replying" /\ cur.reply_to # None /\ stats.error # NoExc
             /\ done'.tag = cur.tag /\ done'.exit = "returned") =>
            pc' = "waiting" /\ conn' = "open"]_vars

\* C6: when the publish of a reply raises, the loop goes on with the next
\* message: it neither ends nor closes the connection.
C6_PublishFailureContinues ==
    [][(pc = "replying" /\ done'.tag = cur.tag /\ done'.exit = "raised") =>
          (pc' = "waiting" /\ conn' = "open")]_vars

\* C7: a request whose report type is not a declared one is answered with
\* status ERROR, the fixed message and an empty result; no report is fetched,
\* nothing is tried or stored on the disk, and after the reply is published the
\* consumer awaits the next message with its connection open.
C7_UnknownOperation ==
    [][/\ (UnknownOp(cur') /\ cur'.reply_to # None) =>
            /\ pc' = "replying"
            /\ pub'.body.status = "ERROR"
            /\ pub'.body.message = UnknownReportType
            /\ pub'.body.result = <<>>
            /\ stats'.fetches = 0 /\ stats'.tried = <<>> /\ stats'.stored = <<>>
            /\ disk' = disk
       /\ (UnknownOp(cur) /\ cur.reply_to # None /\ done'.exit = "returned"
             /\ done'.tag = cur.tag) =>
            pc' = "waiting" /\ conn' = "open" /\ disk' = disk]_vars

C7_Witness ==
    /\ UnknownOp(cur) /\ cur.reply_to # None
    /\ pc = "replying" /\ pub.body.message = UnknownReportType

\* C8: every declared report type is dispatched to its own report method, and
\* none of them ends in the unknown-report-type error.
C8_DeclaredDispatched ==
    (DeclaredOp(cur) /\ cur.reply_to # None) =>
        LET report_type == cur.body.data.report_type
        IN /\ ~execute_report(report_type).raised
           /\ stats.method = execute_report(report_type).value
           /\ stats.fetches = 1
           /\ stats.error # Exc("Exception", <<UnknownReportType>>)
           /\ \A other \in REPORT_TYPE \ {report_type} :
                 execute_report(other) # execute_report(report_type)

\* C9: messages are processed one at a time in delivery order: when a message
\* is in process, the message delivered just before it has had its reply
\* attempt and its decision, every queued message was delivered later, and an
\* action in progress is the action of the message in process.
C9_OneAtATimeInOrder ==
    /\ cur # NoMsg =>
          /\ done.tag = cur.tag - 1
          /\ Finished => (done.pubs = 1 /\ Len(done.decisions) = 1
                            /\ done.exit = "returned")
    /\ \A i \in 1 .. Len(queue) : queue[i].tag > cur.tag /\ queue[i].tag > done.tag
    /\ pc \in ActionAwaits => (cur # NoMsg /\ stats.started /\ pub = NoPub)
    /\ pub # NoPub => (cur # NoMsg /\ pc = "replying")

C9_Witness ==
    /\ cur # NoMsg /\ cur.tag = 2 /\ pc = "uploading"
    /\ done.tag = 1 /\ done.started

Dequeued == delivered - Len(queue)

\* C11: for any sequence of N dequeued messages, valid or malformed, _reply_to
\* is called at most N times in total and at most once for any one message.
C11_AtMostOneReplyEach ==
    /\ nPub <= Dequeued
    /\ stats.pubs <= 1
    /\ done.pubs <= 1

C11_Witness ==
    /\ Dequeued = 2 /\ nPub = 2
    /\ done.tag = 1 /\ done.reply_to = None
    /\ cur # NoMsg /\ cur.body = Garbage

\* C12: for every request with a declared report type, whatever failure the
\* report service or the disk raises (an exception without arguments
\* included), execute_rpc_action returns a payload and raises nothing.
C12_ActionNeverRaises ==
    (cur # NoMsg /\ DeclaredOp(cur) /\ stats.started) => stats.action # "raised"

\* C13: the body of every published reply, success or error, is an object with
\* exactly the keys status, message and result, status being OK or ERROR.
C13_ReplyIsResponse ==
    pub # NoPub =>
        /\ DOMAIN pub.body = {"status", "message", "result"}
        /\ pub.body.status \in {"OK", "ERROR"}

\* C14: every reply with status ERROR has a non-empty message, whatever the
\* underlying failure (an exception with an empty text included).
C14_ErrorMessageNonEmpty ==
    (pub # NoPub /\ pub.body.status = "ERROR") => pub.body.message # ""

\* C15: when the report fetch and the upload of a request succeed and the
\* disk yields the link R, the reply has status OK, the default success
\* message and a result that is the one-element list [R], R being the link of
\* the path the upload stored.
C15_SuccessReply ==
    (stats.action = "returned" /\ stats.error = NoExc) =>
        /\ pc = "replying"
        /\ Len(stats.stored) = 1
        /\ stats.stored[1] \in disk
        /\ pub.body.status = "OK"
        /\ pub.body.message = Success
        /\ pub.body.result = <<Link(stats.stored[1])>>
        /\ pub.routing_key = cur.reply_to

C15_Witness ==
    /\ stats.action = "returned" /\ stats.error = NoExc
    /\ stats.fetches = 1 /\ Len(stats.tried) = 2
    /\ pub.body.result = <<"https://disk/reports/r(1).xlsx">>

\* the k-th name of the sequence name, name(1), name(2), ... for the report
\* file r.xlsx under the base directory
NthName(k) ==
    IF k = 0 THEN "reports/r.xlsx"
    ELSE "reports/r(" \o ToString(k) \o ").xlsx"

\* C16: when the disk holds the first K names and not the next one, K below
\* ya_attempt_count, upload stores the file under the (K+1)-th name of the
\* sequence name, name(1), name(2), ... after exactly K+1 attempts.
C16_CollisionsThenSuccess ==
    stats.stored # <<>> =>
        LET K == Len(stats.tried) - 1
        IN /\ K \in 0 .. AttemptCount - 1
           /\ \A k \in 0 .. K : stats.tried[k + 1] = NthName(k)
           /\ \A k \in 0 .. K - 1 : NthName(k) \in disk
           /\ stats.stored = <<NthName(K)>>

C16_Witness ==
    /\ pc = "publishing"
    /\ Len(stats.tried) = 3
    /\ stats.stored = <<"reports/r(2).xlsx">>

\* C17: when the disk holds every name upload tries, upload ends after exactly
\* ya_attempt_count attempts with the error "Please rename upload file" and
\* has stored nothing; it never makes more attempts than ya_attempt_count.
C17_ExhaustedAfterBound ==
    /\ Len(stats.tried) <= AttemptCount
    /\ number <= AttemptCount
    /\ stats.error.type = "ValueError" =>
          /\ Len(stats.tried) = AttemptCount
          /\ \A i \in 1 .. AttemptCount : stats.tried[i] \in disk
          /\ stats.stored = <<>>
          /\ pub.body.status = "ERROR"
          /\ pub.body.message = "Please rename upload file"
    /\ ( /\ pc = "replying"
         /\ Len(stats.tried) = AttemptCount
         /\ \A i \in 1 .. AttemptCount : stats.tried[i] \in disk
         /\ stats.stored = <<>> ) => stats.error.type = "ValueError"

C17_Witness ==
    /\ pc = "replying"
    /\ stats.error.type = "ValueError"
    /\ disk = Paths

\* C18: upload never writes over a file: the names it tries are pairwise
\* distinct, in the order name, name(1), ..., each tried at most once, and the
\* file is stored only under a name the disk did not hold.
C18_NeverOverwrites ==
    [][ /\ \A i, j \in 1 .. Len(stats'.tried) :
             stats'.tried[i] = stats'.tried[j] => i = j
        /\ \A i \in 1 .. Len(stats'.tried) : stats'.tried[i] = NthName(i - 1)
        /\ stats'.stored # stats.stored /\ stats'.stored # <<>> =>
             LET path == stats'.stored[Len(stats'.stored)]
             IN /\ path \notin disk
                /\ disk' = disk \cup {path}
                /\ path = stats.tried[Len(stats.tried)]
        /\ disk \subseteq disk'
        /\ disk' # disk => stats'.stored # stats.stored ]_vars

C18_Witness ==
    /\ pc = "publishing"
    /\ Len(stats.tried) = 2
    /\ stats.stored = <<stats.tried[2]>>
    /\ disk = {stats.tried[1], stats.tried[2]}

\* C19: the broker connection is opened once and closed once: however the
\* process shuts down (the loop cancelled, the loop ended by an exception, the
\* application start failing after the connection was opened) the connection
\* ends closed, and no message is in process, and so no publish or
\* acknowledgement is made, once it is closed.
C19_ConnectionClosedOnce ==
    /\ (pc \in {"stopped", "failed"} /\ conn # "none") => conn = "closed"
    /\ conn = "closed" =>
          /\ pc \in {"stopped", "failed"}
          /\ cur = NoMsg /\ pub = NoPub
    /\ conn = "none" => pc \in {"new", "failed"}

\* C20 as stated: a message whose body cannot be decoded is dropped, no reply
\* is published for it.
C20_UndecodableDropped ==
    (cur # NoMsg /\ cur.body = Garbage) => (stats.pubs = 0 /\ pub = NoPub)

\* C20, amended: a message whose body cannot be decoded is not dropped
\* silently: when it is dequeued one ERROR reply is published for it, which
\* carries the text of the decode error when the message has a reply_to, the
\* action is not called, and the message ends with one no-requeue decision.
C20_UndecodableAnswered ==
    [][ /\ (Len(queue') < Len(queue) /\ Head(queue).body = Garbage) =>
             /\ cur' = Head(queue)
             /\ pc' = "replying"
             /\ stats'.pubs = 1 /\ ~stats'.started
             /\ pub'.body.status = "ERROR"
             /\ pub'.routing_key = cur'.reply_to
             /\ pub'.correlation_id = cur'.correlation_id
             /\ cur'.reply_to # None =>
                   pub'.body.message = "Expecting value: line 1 column 1 (char 0)"
        /\ (cur # NoMsg /\ cur.body = Garbage /\ cur' = NoMsg) =>
             /\ done'.tag = cur.tag
             /\ done'.pubs = 1
             /\ Len(done'.decisions) = 1
             /\ NoRequeue(done'.decisions[1]) ]_vars

C20_Witness ==
    /\ cur # NoMsg /\ cur.body = Garbage /\ cur.reply_to = "rq1"
    /\ pc = "replying"
    /\ pub.body = Response("ERROR", "Expecting value: line 1 column 1 (char 0)", <<>>)

\* the place of a control state in the lifecycle: 0 before the connection, 1
\* connected, 2 consuming, 3 after start has ended
Rank(p) ==
    IF p = "new" THEN 0
    ELSE IF p = "connected" THEN 1
    ELSE IF p \in Awaits THEN 2
    ELSE 3

\* C22: the consumer's lifecycle only moves forward, Disconnected, Connected,
\* Consuming, Stopped: a message is pulled only while consuming, consuming is
\* entered only from connected with the connection open, no state is entered
\* again once left, and when the consumer leaves consuming the connection has
\* been closed.
C22_LifecycleForward ==
    [][ /\ Rank(pc') >= Rank(pc)
        /\ (cur' # cur /\ cur' # NoMsg) => (pc = "waiting" /\ conn = "open")
        /\ (Rank(pc') = 2 /\ Rank(pc) # 2) => (pc = "connected" /\ conn = "open")
        /\ Rank(pc') = 2 => conn' = "open"
        /\ (Rank(pc) = 2 /\ Rank(pc') = 3) => (conn' = "closed" /\ cur' = NoMsg)
        /\ Rank(pc) = 3 => (pc' = pc /\ conn' = conn) ]_vars

C22_Witness ==
    /\ pc = "failed" /\ conn = "closed"
    /\ done.tag = 2 /\ done.exit = "returned" /\ done.at = "replying"

\* C23: within one upload call every attempt after the first is made only
\* when the sleep that follows the collision of the attempt before it has
\* returned.
C23_BackoffBetweenAttempts ==
    [][ /\ (Len(stats'.tried) > Len(stats.tried) /\ stats.tried # <<>>) =>
             /\ pc = "sleeping" /\ pc' = "uploading"
             /\ stats.tried[Len(stats.tried)] \in disk
             /\ Len(stats'.tried) = Len(stats.tried) + 1
        /\ (pc = "uploading" /\ upload_file(number) \in disk
               /\ pc' \notin {"uploading", "stopped"}) =>
             (pc' = "sleeping" /\ stats'.tried = stats.tried) ]_vars

C23_Witness ==
    /\ pc = "uploading"
    /\ number = 2
    /\ Len(stats.tried) = 3

\* C24: in upload only a collision ("path exists") leads to another attempt:
\* any other failure of client.upload ends the upload at once with that
\* failure, with no attempt under another name and no sleep.
C24_OnlyCollisionRetries ==
    [][ /\ (pc' = "sleeping" /\ pc # "sleeping") =>
             (pc = "uploading" /\ upload_file(number) \in disk
                /\ stats'.error = NoExc)
        /\ (pc = "uploading" /\ stats'.error # NoExc /\ pc' # "stopped") =>
             /\ stats'.error = DiskError
             /\ pc' = "replying"
             /\ stats'.tried = stats.tried /\ stats'.stored = <<>>
             /\ disk' = disk
             /\ pub'.body.status = "ERROR"
             /\ pub'.body.message = "Resource is locked"
        /\ stats.error # NoExc => stats'.tried = stats.tried \/ stats' = NoStats ]_vars

C24_Witness ==
    /\ pc = "replying"
    /\ stats.error = DiskError
    /\ Len(stats.tried) = 2 /\ stats.stored = <<>>
    /\ stats.tried[2] \notin disk

\* C25: every upload call checks the token once, before its first attempt and
\* not again before later ones; with an invalid token no attempt is made and
\* the call fails with YaTokenNotValidException, which is answered with an
\* ERROR reply.
C25_TokenCheckedOnce ==
    /\ stats.token_checks <= 1
    /\ stats.tried # <<>> => stats.token_checks = 1
    /\ pc \in {"uploading", "sleeping", "publishing", "get_link"} =>
          stats.token_checks = 1
    /\ stats.error.type = "YaTokenNotValidException" =>
          /\ stats.token_checks = 1
          /\ stats.tried = <<>> /\ stats.stored = <<>>
          /\ pc = "replying"
          /\ pub.routing_key = cur.reply_to
          /\ pub.body.status = "ERROR"
          /\ pub.body.message =
                "The Yandex disk token failed verification, update token."

C25_Witness ==
    /\ pc = "replying"
    /\ stats.error.type = "YaTokenNotValidException"
    /\ stats.fetches = 1

\* C26: within one execution of the action the steps run in the order report
\* fetch, upload, publish of the stored object, link retrieval; the disk is
\* called only after the fetch succeeded, and the action returns OK only if
\* all four steps succeeded: a failure at any step makes it return an ERROR
\* result with an empty result list, also when the file has been stored.
C26_StepsInOrder ==
    /\ stats.token_checks > 0 => stats.fetches = 1
    /\ stats.tried # <<>> => stats.token_checks > 0
    /\ pc \in {"publishing", "get_link"} => stats.stored # <<>>
    /\ (stats.started /\ pc = "replying") =>
          /\ stats.action = "returned"
          /\ pub.body.status = "OK" <=> stats.error = NoExc
          /\ stats.error # NoExc =>
                (pub.body.status = "ERROR" /\ pub.body.result = <<>>)

\* C21: encoding a Response with to_bytes and decoding the payload gives a
\* Response equal to the first, for every status, message and result, the
\* empty result included.
C21_RoundTrip ==
    trip.step = "decoded" =>
        /\ ~trip.decoded.raised
        /\ trip.decoded.value = trip.response

C21_Witness ==
    /\ trip.step = "decoded"
    /\ trip.response.result = <<>>
    /\ trip.response.message = <<"\\", "\"">>
    /\ trip.decoded = Return(trip.response)

=============================================================================
